---- MODULE Spec2Model ----
(***************************************************************************)
(* Model of src/script.js: the click handler of #uploadBtn, which uploads  *)
(* the selected file with one POST and triggers a download of the reply.   *)
(*                                                                         *)
(* The handler is an async function.  Every click that is delivered starts *)
(* an invocation of its own; an invocation lives in invs from its first    *)
(* await until it returns.  Code runs to completion between awaits, so the *)
(* browser delivers a click, changes the file selection or settles a       *)
(* promise only while no invocation is executing (Quiescent).  The         *)
(* statements after the second await are modelled one per step so that     *)
(* their order is part of the model.                                       *)
(* Strings whose content matters (file names, the content-disposition      *)
(* header) are sequences of one-character strings.                         *)
(***************************************************************************)
EXTENDS Integers, Sequences, FiniteSets, TLC

\* ------------------------------------------------------------------ bounds
\* Clicks delivered to the button in one run.
MaxClicks == 2
\* File names are built from at most this many segments of NameSegs.
MaxNameSegs == 2
\* Header values are built from at most this many segments of HdrSegs.
MaxHdrSegs == 2

\* ----------------------------------------------------------------- strings
Quote == <<"\"">>
Xlsx == <<".", "x", "l", "s", "x">>
Md == <<".", "m", "d">>
\* The literal prefix of the pattern /filename="(.+)"/ (line 39).
FnPrefix == <<"f", "i", "l", "e", "n", "a", "m", "e", "=", "\"">>
\* A well-formed parameter filename="x".
FnParam == FnPrefix \o <<"x">> \o Quote

RECURSIVE Flatten(_)
Flatten(ss) ==
    IF ss = <<>> THEN <<>> ELSE Head(ss) \o Flatten(Tail(ss))

SegSeqs(segs, lo, hi) ==
    UNION {[1..n -> segs] : n \in lo..hi}

NameSegs == {<<"a">>, Xlsx}
Names == {Flatten(ss) : ss \in SegSeqs(NameSegs, 1, MaxNameSegs)}

HdrSegs == {FnParam, FnPrefix, <<"x">>, Quote}
HeaderValues == {Flatten(ss) : ss \in SegSeqs(HdrSegs, 0, MaxHdrSegs)}

\* undefined / null of the program
None == [none |-> TRUE]

\* fileInput.files[0]: a File (here its name) or undefined
Files == [name : Names]
\* res.headers.get('content-disposition'): null when the header is absent
Headers == [value : HeaderValues] \cup {None}
\* response bodies, as the Blob that res.blob() resolves with
Bodies == [data : {"B1", "B2"}]
\* res.status
StatusCodes == {200, 404, 500}
\* rejection reasons of fetch() and res.blob(): Error objects
Errors == [message : {"offline", "aborted"}]

\* Response.ok of the Fetch API: the status is in the range 200-299.
ResOk(code) ==
    code >= 200 /\ code =< 299

\* ------------------------------------------------- String.prototype.replace
\* First index at which pat occurs in s, 0 when it does not occur.
IndexOf(s, pat) ==
    LET hits == {i \in 1..(Len(s) - Len(pat) + 1) :
                    SubSeq(s, i, i + Len(pat) - 1) = pat}
    IN  IF hits = {} THEN 0
        ELSE CHOOSE i \in hits : \A j \in hits : i =< j

\* s.replace(pat, rep) with a string pattern: only the first occurrence of
\* pat is replaced (line 37).
Replace(s, pat, rep) ==
    LET i == IndexOf(s, pat)
    IN  IF i = 0 THEN s
        ELSE SubSeq(s, 1, i - 1) \o rep \o SubSeq(s, i + Len(pat), Len(s))

\* ------------------------------------------------- String.prototype.match
\* h.match(/filename="(.+)"/): the leftmost position where the prefix
\* occurs and is followed by at least one character and a closing quote;
\* (.+) is greedy, so the group runs up to the last quote of h.  The result
\* is the captured group, or None when there is no match (line 39).
MatchFilename(h) ==
    LET starts == {i \in 1..Len(h) :
                      /\ i + Len(FnPrefix) - 1 =< Len(h)
                      /\ SubSeq(h, i, i + Len(FnPrefix) - 1) = FnPrefix
                      /\ \E j \in (i + Len(FnPrefix) + 1)..Len(h) : h[j] = "\""}
    IN  IF starts = {} THEN None
        ELSE LET i == CHOOSE k \in starts : \A m \in starts : k =< m
                 p == i + Len(FnPrefix)
                 ends == {j \in (p + 1)..Len(h) : h[j] = "\""}
                 e == CHOOSE j \in ends : \A m \in ends : j >= m
             IN  [group |-> SubSeq(h, p, e - 1)]

\* if (contentDisposition): null and the empty string are both falsy.
Truthy(h) ==
    h # None /\ h.value # <<>>

\* Lines 37-41: the name given to the download.
DeriveFilename(name, contentDisposition) ==
    LET fallback == Replace(name, Xlsx, Md)
    IN  IF Truthy(contentDisposition)
        THEN LET match == MatchFilename(contentDisposition.value)
             IN  IF match # None THEN match.group ELSE fallback
        ELSE fallback

\* ---------------------------------------------------------------- messages
\* status.textContent is a sequence of parts: a literal, or a literal
\* followed by the interpolated value of a template literal.
MsgSelectFile == <<"please select a file">>
MsgGenerating == <<"generating...">>
MsgDone == <<"done">>
MsgHttpError(code) == <<"error: ", ToString(code)>>
MsgCommError(err) == <<"communication error: ", err.message>>

Endpoint == "http://localhost:7071/api/upload"

\* ------------------------------------------------------------------- state
VARIABLES
    disabled,       \* uploadBtn.disabled
    status,         \* status.textContent
    fileInput,      \* fileInput.files[0]
    invs,           \* the invocations of the handler that have not returned
    objectURLs,     \* blobs held by the object URLs created so far
    bodyChildren,   \* anchors currently appended to document.body
    noFileClicks,   \* clicks delivered with no file selected
    fileClicks,     \* clicks delivered with a file selected
    posts,          \* requests issued
    downloads       \* downloads started

vars == <<disabled, status, fileInput, invs, objectURLs, bodyChildren,
          noFileClicks, fileClicks, posts, downloads>>

page == <<objectURLs, bodyChildren, downloads>>
counts == <<noFileClicks, fileClicks, posts>>

\* Lines 1-5: the page after the script has run; nothing is selected, the
\* button is enabled, the status element is empty, no handler is running.
Init ==
    /\ disabled = FALSE
    /\ status = <<>>
    /\ fileInput = None
    /\ invs = <<>>
    /\ objectURLs = <<>>
    /\ bodyChildren = {}
    /\ noFileClicks = 0
    /\ fileClicks = 0
    /\ posts = 0
    /\ downloads = 0

\* An invocation suspended at one of the two awaits (lines 22 and 35).
Suspended(i) ==
    invs[i].pc \in {"awaitFetch", "awaitBlob"}

\* No invocation is executing: the event loop can dispatch the next event.
Quiescent ==
    \A i \in DOMAIN invs : Suspended(i)

\* invs with invocation i set to r / with invocation i gone
Put(i, r) ==
    [j \in DOMAIN invs \cup {i} |-> IF j = i THEN r ELSE invs[j]]
Drop(i) ==
    [j \in DOMAIN invs \ {i} |-> invs[j]]

\* The user picks a file, or clears the selection, in the file input.
SelectFile ==
    /\ Quiescent
    /\ \E f \in Files \cup {None} :
          /\ f # fileInput
          /\ fileInput' = f
    /\ UNCHANGED <<disabled, status, invs, page, counts>>

\* A click event reaches the handler: no code is running and the button
\* is enabled (a disabled button receives no click events).
ClickDeliverable ==
    /\ Quiescent
    /\ ~disabled
    /\ noFileClicks + fileClicks < MaxClicks

\* Lines 16-17: new FormData() with the file appended under "file".
FormData(f) ==
    <<[name |-> "file", value |-> f]>>

\* Lines 19-25: the request handed to fetch().
Request(f) ==
    [url |-> Endpoint, method |-> "POST", body |-> FormData(f)]

\* Faulty variant: line 13 is missing.
DisableButtonSkipped ==
    UNCHANGED disabled

\* Line 13
DisableButton ==
    disabled' = TRUE

\* Faulty variant: line 14 is missing.
SetGeneratingSkipped ==
    UNCHANGED status

\* Line 14
SetGenerating ==
    status' = MsgGenerating

\* Line 6 and lines 16-25: the invocation as it suspends at await fetch().
\* trace lists the effects of the invocation in order; download is the
\* download it started.
NewInvocation(f) ==
    [pc |-> "awaitFetch", file |-> f, request |-> Request(f), res |-> None,
     err |-> None, blob |-> None, contentDisposition |-> None, a |-> None,
     download |-> None, trace |-> <<"fetch">>]

\* Faulty variant: the button is disabled before the guard of line 8.
ClickNoFileAfterDisable ==
    /\ ClickDeliverable
    /\ fileInput = None
    /\ disabled' = TRUE
    /\ status' = MsgSelectFile
    /\ noFileClicks' = noFileClicks + 1
    /\ UNCHANGED <<fileInput, invs, page, fileClicks, posts>>

\* Lines 6-11: a click with nothing selected.
ClickNoFile ==
    /\ ClickDeliverable
    /\ fileInput = None
    /\ status' = MsgSelectFile
    /\ noFileClicks' = noFileClicks + 1
    /\ UNCHANGED <<disabled, fileInput, invs, page, fileClicks, posts>>

\* Lines 6-25: a click with a file selected, up to the first await.
ClickStart ==
    /\ ClickDeliverable
    /\ fileInput # None
    /\ DisableButton
    /\ SetGenerating
    /\ invs' = Put(fileClicks + 1, NewInvocation(fileInput))
    /\ posts' = posts + 1
    /\ fileClicks' = fileClicks + 1
    /\ UNCHANGED <<fileInput, page, noFileClicks>>

\* Faulty variant: the message does not interpolate err.message.
ReportCommErrorNoReason(e) ==
    status' = <<"communication error">>

\* Line 53
ReportCommError(e) ==
    status' = MsgCommError(e)

\* Faulty variant: the catch clause issues the request again.
FetchRejectRetries(i) ==
    /\ Quiescent
    /\ invs[i].pc = "awaitFetch"
    /\ posts =< MaxClicks
    /\ posts' = posts + 1
    /\ invs' = Put(i, [invs[i] EXCEPT !.trace = Append(@, "fetch")])
    /\ UNCHANGED <<disabled, status, fileInput, page, noFileClicks,
                   fileClicks>>

\* Lines 22, 52-53: fetch() rejects; the catch clause reports it.
FetchReject(i) ==
    /\ Quiescent
    /\ invs[i].pc = "awaitFetch"
    /\ \E e \in Errors :
          /\ ReportCommError(e)
          /\ invs' = Put(i, [invs[i] EXCEPT !.err = e, !.pc = "finally"])
    /\ UNCHANGED <<disabled, fileInput, page, counts>>

\* Faulty variant: the return of line 32 is missing, the body is read all the same.
HttpErrorBranchNoReturn(i, r) ==
    /\ status' = MsgHttpError(r.status)
    /\ disabled' = FALSE
    /\ invs' = Put(i, [invs[i] EXCEPT !.res = r,
                                      !.trace = Append(@, "blob"),
                                      !.pc = "awaitBlob"])

\* Lines 29-33: the response is not ok; it is reported, the button is
\* enabled and the handler returns (through finally).
HttpErrorBranch(i, r) ==
    /\ status' = MsgHttpError(r.status)
    /\ disabled' = FALSE
    /\ invs' = Put(i, [invs[i] EXCEPT !.res = r, !.pc = "finally"])

\* Line 35: the response is ok; res.blob() is called and awaited.
ReadBody(i, r) ==
    /\ invs' = Put(i, [invs[i] EXCEPT !.res = r,
                                      !.trace = Append(@, "blob"),
                                      !.pc = "awaitBlob"])
    /\ UNCHANGED <<status, disabled>>

\* Lines 22-35: fetch() resolves with a response.
FetchResolve(i) ==
    /\ Quiescent
    /\ invs[i].pc = "awaitFetch"
    /\ \E code \in StatusCodes :
          LET r == [status |-> code, ok |-> ResOk(code)]
          IN  IF ~r.ok THEN HttpErrorBranch(i, r) ELSE ReadBody(i, r)
    /\ UNCHANGED <<fileInput, page, counts>>

\* Faulty variant: the body is read outside the try block, so a rejection
\* ends the invocation without the catch and finally clauses.
BlobRejectUnhandled(i) ==
    /\ Quiescent
    /\ invs[i].pc = "awaitBlob"
    /\ invs' = Drop(i)
    /\ UNCHANGED <<disabled, status, fileInput, page, counts>>

\* Lines 35, 52-53: res.blob() rejects; the catch clause reports it.
BlobReject(i) ==
    /\ Quiescent
    /\ invs[i].pc = "awaitBlob"
    /\ \E e \in Errors :
          /\ ReportCommError(e)
          /\ invs' = Put(i, [invs[i] EXCEPT !.err = e, !.pc = "finally"])
    /\ UNCHANGED <<disabled, fileInput, page, counts>>

\* Faulty variant: line 37 reads fileInput.files[0] again instead of file.
BlobResolveReadsInput(i) ==
    /\ Quiescent
    /\ invs[i].pc = "awaitBlob"
    /\ \E b \in Bodies, h \in Headers :
          /\ objectURLs' = Append(objectURLs, b)
          /\ invs' = Put(i, [invs[i] EXCEPT
                 !.blob = b,
                 !.contentDisposition = h,
                 !.a = [href |-> Len(objectURLs) + 1,
                        download |-> DeriveFilename(
                            IF fileInput # None THEN fileInput.name
                            ELSE invs[i].file.name, h)],
                 !.trace = @ \o <<"createObjectURL", "createElement">>,
                 !.pc = "append"])
    /\ UNCHANGED <<disabled, status, fileInput, bodyChildren, downloads,
                   counts>>

\* Lines 35-46: res.blob() resolves; the file name is derived, an object
\* URL and an anchor are created.
BlobResolve(i) ==
    /\ Quiescent
    /\ invs[i].pc = "awaitBlob"
    /\ \E b \in Bodies, h \in Headers :
          /\ objectURLs' = Append(objectURLs, b)
          /\ invs' = Put(i, [invs[i] EXCEPT
                 !.blob = b,
                 !.contentDisposition = h,
                 !.a = [href |-> Len(objectURLs) + 1,
                        download |-> DeriveFilename(invs[i].file.name, h)],
                 !.trace = @ \o <<"createObjectURL", "createElement">>,
                 !.pc = "append"])
    /\ UNCHANGED <<disabled, status, fileInput, bodyChildren, downloads,
                   counts>>

\* Line 47: document.body.appendChild(a)
AppendAnchor(i) ==
    /\ invs[i].pc = "append"
    /\ bodyChildren' = bodyChildren \cup {invs[i].a}
    /\ invs' = Put(i, [invs[i] EXCEPT !.trace = Append(@, "appendChild"),
                                      !.pc = "click"])
    /\ UNCHANGED <<disabled, status, fileInput, objectURLs, downloads, counts>>

\* Faulty variant: the object URL is revoked right after the click.
ClickAnchorThenRevoke(i) ==
    /\ invs[i].pc = "click"
    /\ downloads' = downloads + 1
    /\ objectURLs' = SubSeq(objectURLs, 1, Len(objectURLs) - 1)
    /\ invs' = Put(i, [invs[i] EXCEPT
           !.download = [filename |-> invs[i].a.download,
                         content |-> objectURLs[invs[i].a.href]],
           !.trace = Append(@, "click"),
           !.pc = "remove"])
    /\ UNCHANGED <<disabled, status, fileInput, bodyChildren, counts>>

\* Line 48: a.click() starts the download of the blob behind a.href under
\* the name a.download.
ClickAnchor(i) ==
    /\ invs[i].pc = "click"
    /\ downloads' = downloads + 1
    /\ invs' = Put(i, [invs[i] EXCEPT
           !.download = [filename |-> invs[i].a.download,
                         content |-> objectURLs[invs[i].a.href]],
           !.trace = Append(@, "click"),
           !.pc = "remove"])
    /\ UNCHANGED <<disabled, status, fileInput, objectURLs, bodyChildren,
                   counts>>

\* Faulty variant: line 49 is missing, the anchor stays in the document.
RemoveAnchorSkipped(i) ==
    /\ invs[i].pc = "remove"
    /\ invs' = Put(i, [invs[i] EXCEPT !.pc = "setDone"])
    /\ UNCHANGED <<disabled, status, fileInput, page, counts>>

\* Line 49: a.remove()
RemoveAnchor(i) ==
    /\ invs[i].pc = "remove"
    /\ bodyChildren' = bodyChildren \ {invs[i].a}
    /\ invs' = Put(i, [invs[i] EXCEPT !.trace = Append(@, "remove"),
                                      !.pc = "setDone"])
    /\ UNCHANGED <<disabled, status, fileInput, objectURLs, downloads, counts>>

\* Faulty variant: line 51 is missing.
SetDoneSkipped(i) ==
    /\ invs[i].pc = "setDone"
    /\ invs' = Put(i, [invs[i] EXCEPT !.trace = Append(@, "done"),
                                      !.pc = "finally"])
    /\ UNCHANGED <<disabled, status, fileInput, page, counts>>

\* Line 51: the completion message.
SetDone(i) ==
    /\ invs[i].pc = "setDone"
    /\ status' = MsgDone
    /\ invs' = Put(i, [invs[i] EXCEPT !.trace = Append(@, "done"),
                                      !.pc = "finally"])
    /\ UNCHANGED <<disabled, fileInput, page, counts>>

\* Faulty variant: the finally clause is empty.
EnableButtonSkipped ==
    UNCHANGED disabled

\* Line 55
EnableButton ==
    disabled' = FALSE

\* Lines 54-57: the finally clause, run on every way out of the try block;
\* then the invocation has returned.
Finally(i) ==
    /\ invs[i].pc = "finally"
    /\ EnableButton
    /\ invs' = Drop(i)
    /\ UNCHANGED <<status, fileInput, page, counts>>

Next ==
    \/ SelectFile
    \/ ClickNoFile
    \/ ClickStart
    \/ \E i \in DOMAIN invs : FetchReject(i)
    \/ \E i \in DOMAIN invs : FetchResolve(i)
    \/ \E i \in DOMAIN invs : BlobReject(i)
    \/ \E i \in DOMAIN invs : BlobResolve(i)
    \/ \E i \in DOMAIN invs : AppendAnchor(i)
    \/ \E i \in DOMAIN invs : ClickAnchor(i)
    \/ \E i \in DOMAIN invs : RemoveAnchor(i)
    \/ \E i \in DOMAIN invs : SetDone(i)
    \/ \E i \in DOMAIN invs : Finally(i)

Spec == Init /\ [][Next]_vars

\* Line 22: the promise of fetch() settles.
FetchSettles ==
    \E i \in DOMAIN invs : FetchReject(i) \/ FetchResolve(i)

\* Line 35: the promise of res.blob() settles.
BlobSettles ==
    \E i \in DOMAIN invs : BlobReject(i) \/ BlobResolve(i)

\* Lines 47-56: handler code that has started runs on to its return.
HandlerStep ==
    \E i \in DOMAIN invs :
        \/ AppendAnchor(i)
        \/ ClickAnchor(i)
        \/ RemoveAnchor(i)
        \/ SetDone(i)
        \/ Finally(i)

\* The handler under the assumption that every issued fetch and every
\* started body read settles; clicks and selections remain up to the user.
FairSpec ==
    /\ Spec
    /\ WF_vars(FetchSettles)
    /\ WF_vars(BlobSettles)
    /\ WF_vars(HandlerStep)

\* ------------------------------------------------------------------ claims
\* The text s contains the interpolated value v.
Embeds(s, v) ==
    \E k \in DOMAIN s : s[k] = v

\* Invocations that have issued their POST and have not returned.
InFlight == DOMAIN invs

\* No invocation of the handler is in progress.
Idle == DOMAIN invs = {}

\* Invocation i returns in this step.
Returns(i) ==
    i \in DOMAIN invs /\ i \notin DOMAIN invs'

\* C1: at most one upload is in flight: in every reachable state at most
\* one invocation has issued a POST and not yet returned.
C1_AtMostOneInFlight ==
    Cardinality(InFlight) =< 1

\* A second upload is in flight after the first one is over.
C1_Witness ==
    /\ fileClicks = 2
    /\ \E i \in InFlight : invs[i].pc = "awaitBlob"

\* C2: whenever no invocation is in progress, whichever way the last one
\* ended, the upload button is enabled.
C2_EnabledWhenIdle ==
    Idle => ~disabled

\* An invocation has ended with a rejected promise; the button is enabled.
C2_Witness ==
    /\ Idle
    /\ fileClicks >= 1
    /\ \E e \in Errors : status = MsgCommError(e)
    /\ ~disabled

\* C3: a click with no file selected sets the status to the "please select
\* a file" message and changes nothing else: no POST, no download, no
\* invocation left running, the button still enabled.
C3_NoFileClickOnlySetsStatus ==
    [][(noFileClicks' # noFileClicks) =>
          /\ fileInput = None
          /\ status' = MsgSelectFile
          /\ ~disabled'
          /\ UNCHANGED <<disabled, fileInput, invs, objectURLs, bodyChildren,
                         fileClicks, posts, downloads>>]_vars

\* A click with no file selected was delivered after an upload.
C3_Witness ==
    /\ noFileClicks = 1
    /\ posts = 1
    /\ status = MsgSelectFile
    /\ ~disabled

\* The response of invocation i has a status outside 200-299.
NonOkResponse(i) ==
    /\ invs[i].res # None
    /\ (invs[i].res.status < 200 \/ invs[i].res.status > 299)

\* C4: when the POST resolves with a non-2xx status N, the body is not
\* read, no object URL or anchor is created, nothing is downloaded and the
\* completion message is not set; the invocation returns with the status
\* text embedding N and the button enabled.
C4_HttpErrorPath ==
    /\ [](\A i \in DOMAIN invs : NonOkResponse(i) =>
             /\ invs[i].trace = <<"fetch">>
             /\ invs[i].blob = None /\ invs[i].a = None
             /\ invs[i].download = None
             /\ invs[i].pc = "finally"
             /\ Embeds(status, ToString(invs[i].res.status)))
    /\ [][\A i \in DOMAIN invs : (NonOkResponse(i) /\ Returns(i)) =>
             /\ Embeds(status', ToString(invs[i].res.status))
             /\ status' # MsgDone
             /\ ~disabled'
             /\ UNCHANGED <<objectURLs, bodyChildren, downloads>>]_vars

\* An invocation answered with 500 has returned.
C4_Witness ==
    /\ Idle
    /\ status = MsgHttpError(500)
    /\ ~disabled

\* fetch() of invocation i was rejected.
NetworkRejected(i) ==
    invs[i].err # None /\ invs[i].res = None

\* C5: when the POST is rejected with reason m, nothing is downloaded and
\* the completion message is not set; the invocation returns with the
\* status text embedding m and the button enabled.
C5_NetworkErrorPath ==
    /\ [](\A i \in DOMAIN invs : NetworkRejected(i) =>
             /\ invs[i].trace = <<"fetch">>
             /\ invs[i].download = None
             /\ invs[i].pc = "finally"
             /\ Embeds(status, invs[i].err.message))
    /\ [][\A i \in DOMAIN invs : (NetworkRejected(i) /\ Returns(i)) =>
             /\ Embeds(status', invs[i].err.message)
             /\ status' # MsgDone
             /\ ~disabled'
             /\ UNCHANGED downloads]_vars

\* An invocation whose fetch() was rejected with "offline" has returned.
C5_Witness ==
    /\ Idle
    /\ posts = 1
    /\ downloads = 0
    /\ status = MsgCommError([message |-> "offline"])
    /\ ~disabled

\* The header value h holds a parameter filename="n" with n not empty and
\* free of quotes; Params(h) is the set of such n.
Params(h) ==
    {SubSeq(h, i + Len(FnPrefix), q - 1) :
        <<i, q>> \in {<<i, q>> \in (1..Len(h)) \X (1..Len(h)) :
            /\ i + Len(FnPrefix) - 1 =< Len(h)
            /\ SubSeq(h, i, i + Len(FnPrefix) - 1) = FnPrefix
            /\ q > i + Len(FnPrefix)
            /\ h[q] = "\""
            /\ \A k \in (i + Len(FnPrefix))..(q - 1) : h[k] # "\""}}

\* C6: on a 2xx response with body B whose content-disposition header
\* holds filename="<name>", the download has the file name <name>, whatever
\* else the header holds, and the content B.  (Stated for headers that
\* hold one such name.)  The code's pattern is greedy: it captures up to
\* the last quote of the header.
C6_HeaderFilenameUsed ==
    \A i \in DOMAIN invs :
        (/\ invs[i].download # None
         /\ invs[i].contentDisposition # None
         /\ Cardinality(Params(invs[i].contentDisposition.value)) = 1) =>
            /\ invs[i].download.filename
                   \in Params(invs[i].contentDisposition.value)
            /\ invs[i].download.content = invs[i].blob

\* The header value h matches /filename="(.+)"/ somewhere.
PatternMatches(h) ==
    \E i \in 1..(Len(h) - Len(FnPrefix) + 1) :
        /\ SubSeq(h, i, i + Len(FnPrefix) - 1) = FnPrefix
        /\ \E j \in (i + Len(FnPrefix) + 1)..Len(h) : h[j] = "\""

\* The name n with a trailing .xlsx replaced by .md, unchanged otherwise.
SuffixReplaced(n) ==
    IF Len(n) >= Len(Xlsx) /\ SubSeq(n, Len(n) - Len(Xlsx) + 1, Len(n)) = Xlsx
    THEN SubSeq(n, 1, Len(n) - Len(Xlsx)) \o Md
    ELSE n

\* C7: on a 2xx response whose content-disposition header is absent or
\* does not match the pattern, the download has the original file name
\* with a trailing .xlsx replaced by .md and the rest unchanged.  The code
\* replaces the first .xlsx of the name, wherever it is.
C7_FallbackReplacesSuffix ==
    \A i \in DOMAIN invs :
        (/\ invs[i].download # None
         /\ \/ invs[i].contentDisposition = None
            \/ ~PatternMatches(invs[i].contentDisposition.value)) =>
            invs[i].download.filename = SuffixReplaced(invs[i].file.name)

\* C8: every click delivered with a file selected issues one POST to the
\* endpoint with one field "file" holding the selected file, and nothing
\* else ever issues a request: the requests issued equal those clicks.
C8_OnePostPerFileClick ==
    /\ [](posts = fileClicks)
    /\ [](\A i \in DOMAIN invs :
             /\ Cardinality({k \in DOMAIN invs[i].trace :
                                 invs[i].trace[k] = "fetch"}) = 1
             /\ Len(invs[i].request.body) = 1
             /\ invs[i].request.body[1].value = invs[i].file)
    /\ [][(fileClicks' # fileClicks) =>
             /\ fileInput # None
             /\ fileClicks' = fileClicks + 1
             /\ posts' = posts + 1
             /\ invs'[fileClicks'].request =
                    [url |-> "http://localhost:7071/api/upload",
                     method |-> "POST",
                     body |-> <<[name |-> "file", value |-> fileInput]>>]]_vars
    /\ [][(posts' # posts) => (fileClicks' # fileClicks)]_vars

\* Two uploads were started; the first ended without a download, the
\* second was rejected: two requests in all, none of them repeated.
C8_Witness ==
    /\ posts = 2
    /\ downloads = 0
    /\ \E i \in InFlight : invs[i].err # None /\ invs[i].res = None

\* Invocation i is suspended and its promise settles in this step.
Settles(i) ==
    /\ i \in DOMAIN invs
    /\ Suspended(i)
    /\ i \in DOMAIN invs'
    /\ invs'[i].pc # invs[i].pc

\* C9: there is no timeout or cancellation: while a fetch or body read is
\* pending the button is disabled and the status is "generating"; a step
\* taken while it is pending leaves both so unless it is the settlement of
\* that promise, and the button is enabled only by the settlement step or
\* by the finally clause that follows it.
C9_NoTimeout ==
    /\ [](\A i \in DOMAIN invs : Suspended(i) =>
             disabled /\ status = MsgGenerating)
    /\ [][((\E i \in DOMAIN invs : Suspended(i))
             /\ (~disabled' \/ status' # MsgGenerating \/ invs' # invs)) =>
             \E i \in DOMAIN invs : Settles(i)]_vars
    /\ [][(disabled /\ ~disabled') =>
             \E i \in DOMAIN invs :
                 Settles(i) \/ invs[i].pc = "finally"]_vars

\* A body read is pending while the user has changed the selection.
C9_Witness ==
    \E i \in InFlight :
        /\ invs[i].pc = "awaitBlob"
        /\ fileInput # invs[i].file
        /\ disabled
        /\ status = MsgGenerating

\* The status shows a failure.
FailureStatus ==
    \/ status = MsgSelectFile
    \/ \E c \in StatusCodes : status = MsgHttpError(c)
    \/ \E e \in Errors : status = MsgCommError(e)

\* C10: no error is fatal: once an invocation has ended in a failure, a
\* click with a file selected can be delivered, and every such click
\* disables the button, sets the "generating" status and issues a new POST.
C10_ClickableAfterFailure ==
    /\ []((/\ Idle
           /\ FailureStatus
           /\ fileInput # None
           /\ noFileClicks + fileClicks < MaxClicks) => ENABLED ClickStart)
    /\ [][(fileClicks' # fileClicks) =>
             /\ disabled'
             /\ status' = MsgGenerating
             /\ posts' = posts + 1
             /\ invs'[fileClicks'].pc = "awaitFetch"
             /\ invs'[fileClicks'].file = fileInput
             /\ invs'[fileClicks'].trace = <<"fetch">>]_vars

\* A second upload is under way after the first one failed.
C10_Witness ==
    /\ fileClicks = 2
    /\ downloads = 0
    /\ disabled
    /\ status = MsgGenerating
    /\ \E i \in InFlight : i = 2 /\ invs[i].pc = "awaitFetch"

\* s is an initial part of t.
IsPrefix(s, t) ==
    Len(s) =< Len(t) /\ SubSeq(t, 1, Len(s)) = s

\* The effects of an invocation that succeeds, in the order of the claim.
SuccessOrder ==
    <<"fetch", "blob", "createObjectURL", "createElement", "appendChild",
      "click", "remove", "done">>

\* Occurrences of effect e in the trace of invocation i.
Count(i, e) ==
    Cardinality({k \in DOMAIN invs[i].trace : invs[i].trace[k] = e})

\* C11: on the success path the effects occur in the order body read,
\* anchor appended, anchor clicked once, anchor removed, completion message,
\* and the button is enabled after all of them; the completion message is
\* shown only after the same invocation started a download; when no
\* invocation is in progress the document holds no anchor of the handler.
C11_SuccessOrder ==
    /\ \A i \in DOMAIN invs :
          /\ IsPrefix(invs[i].trace, SuccessOrder)
          /\ Count(i, "click") =< 1
          /\ (invs[i].download # None) <=> (Count(i, "click") = 1)
          /\ (Count(i, "done") = 1) =>
                /\ status = MsgDone
                /\ invs[i].download # None
                /\ invs[i].a \notin bodyChildren
          /\ (Count(i, "blob") = 1) => disabled
          /\ (invs[i].pc = "remove") <=> (invs[i].a \in bodyChildren
                                           /\ invs[i].download # None)
    /\ (status = MsgDone) =>
          downloads >= 1 /\ \A i \in DOMAIN invs : Count(i, "done") = 1
    /\ Idle => bodyChildren = {}

\* A successful invocation has returned: completion message, a download,
\* no anchor left, button enabled.
C11_Witness ==
    /\ Idle
    /\ status = MsgDone
    /\ downloads = 1
    /\ bodyChildren = {}
    /\ ~disabled

\* C12 as stated: in every reachable state the number of live object URLs
\* equals the number of downloads started so far.  Between line 43 and
\* line 48 the URL exists and the download has not started.
C12_UrlsEqualDownloads ==
    Len(objectURLs) = downloads

\* C12 as amended: object URLs are created on the success path only, one
\* per successful upload, and are never revoked; whenever no handler code
\* is executing their number equals the number of downloads started, and
\* while the handler runs it is at most one ahead.
C12_UrlsNeverRevoked ==
    /\ [](Quiescent => Len(objectURLs) = downloads)
    /\ [](Len(objectURLs) - downloads \in {0, 1})
    /\ [](\A i \in DOMAIN invs :
             /\ Count(i, "createObjectURL") =< 1
             /\ (Count(i, "createObjectURL") = 1) =>
                    /\ invs[i].res # None /\ invs[i].res.ok
                    /\ invs[i].blob # None
                    /\ invs[i].err = None
                    /\ objectURLs[invs[i].a.href] = invs[i].blob
             /\ (Count(i, "done") = 1) => (Count(i, "createObjectURL") = 1))
    /\ [][IsPrefix(objectURLs, objectURLs')
             /\ Len(objectURLs') =< Len(objectURLs) + 1]_vars
    /\ [][(objectURLs' # objectURLs) =>
             \E i \in DOMAIN invs :
                 /\ invs[i].pc = "awaitBlob"
                 /\ Count(i, "createObjectURL") = 0
                 /\ invs'[i].blob = objectURLs'[Len(objectURLs')]]_vars

\* Two uploads have succeeded: two object URLs are live.
C12_Witness ==
    /\ Idle
    /\ downloads = 2
    /\ Len(objectURLs) = 2

\* C13: whenever no handler code is executing (the handler is idle or
\* suspended at an await), the button is disabled exactly when the status
\* is "generating", and exactly when an upload is in flight.
C13_DisabledIffGenerating ==
    Quiescent =>
        /\ disabled <=> (status = MsgGenerating)
        /\ disabled <=> (InFlight # {})

\* Two uploads have ended, the last one with the completion message.
C13_Witness ==
    /\ Idle
    /\ fileClicks = 2
    /\ status = MsgDone
    /\ ~disabled

\* res.blob() of invocation i was rejected.
BodyReadRejected(i) ==
    invs[i].err # None /\ invs[i].res # None

\* C14: when the response is 2xx and reading its body is rejected with
\* reason m, the status becomes the communication-error message embedding
\* m, no object URL or anchor is created, nothing is downloaded, the
\* completion message is not set, and the invocation returns with the
\* button enabled.
C14_BodyReadErrorPath ==
    /\ [](\A i \in DOMAIN invs : BodyReadRejected(i) =>
             /\ invs[i].res.status >= 200 /\ invs[i].res.status =< 299
             /\ invs[i].trace = <<"fetch", "blob">>
             /\ invs[i].blob = None /\ invs[i].a = None
             /\ invs[i].download = None
             /\ invs[i].pc = "finally"
             /\ status = <<"communication error: ", invs[i].err.message>>)
    /\ [][\A i \in DOMAIN invs : Returns(i) => invs[i].pc = "finally"]_vars
    /\ [][\A i \in DOMAIN invs : (BodyReadRejected(i) /\ Returns(i)) =>
             /\ status' = <<"communication error: ", invs[i].err.message>>
             /\ ~disabled'
             /\ UNCHANGED <<objectURLs, bodyChildren, downloads>>]_vars

\* An invocation whose body read was rejected with "aborted" has returned.
C14_Witness ==
    /\ Idle
    /\ posts = 1
    /\ Len(objectURLs) = 0
    /\ status = MsgCommError([message |-> "aborted"])
    /\ ~disabled

\* C15: the selected file is captured once, when the click is delivered:
\* the POST body carries the file selected at that moment, and whatever
\* the user selects while the request or the body read is pending, the
\* fallback name of the download is derived from the name of that file.
C15_FileCapturedAtClick ==
    /\ [][(fileClicks' # fileClicks) =>
             /\ invs'[fileClicks'].file = fileInput
             /\ invs'[fileClicks'].request.body =
                    <<[name |-> "file", value |-> fileInput]>>]_vars
    /\ [][\A i \in DOMAIN invs \cap DOMAIN invs' :
             /\ invs'[i].file = invs[i].file
             /\ invs'[i].request = invs[i].request]_vars
    /\ [](\A i \in DOMAIN invs :
             (/\ invs[i].download # None
              /\ \/ invs[i].contentDisposition = None
                 \/ ~PatternMatches(invs[i].contentDisposition.value)) =>
                 invs[i].download.filename
                     = Replace(invs[i].request.body[1].value.name, Xlsx, Md))

\* A download was named by the fallback after the user had selected a file
\* of another name, which would have given another download name.
C15_Witness ==
    \E i \in InFlight :
        /\ invs[i].download # None
        /\ invs[i].contentDisposition = None
        /\ fileInput # None
        /\ fileInput # invs[i].file
        /\ Replace(fileInput.name, Xlsx, Md) # invs[i].download.filename

\* The status shows one of the three messages an upload can end with.
TerminalStatus ==
    \/ status = MsgDone
    \/ \E c \in StatusCodes : status = MsgHttpError(c)
    \/ \E e \in Errors : status = MsgCommError(e)

\* C16: if every issued fetch and every started body read settles, every
\* click delivered with a file selected leads to a state in which the
\* handler has returned, the button is enabled and the status is the
\* completion message, an HTTP error with its code or a communication
\* error.
C16_EventuallyFinished ==
    (InFlight # {}) ~> (Idle /\ ~disabled /\ TerminalStatus)

\* The second of two uploads has ended with an HTTP error.
C16_Witness ==
    /\ Idle
    /\ posts = 2
    /\ status = MsgHttpError(404)
    /\ ~disabled

====
